---- MODULE Spec2Model ----
(***************************************************************************)
(* Model of projekt2/index.py: a Pygame program in which a Player is       *)
(* steered with the arrow keys and the mouse, every position is recorded   *)
(* on the PathManager stack, and SPACE replays the recorded path backwards.*)
(*                                                                         *)
(* One frame of GameApp.run is handle_events(dt) followed by               *)
(* update_playback(); the drawing calls touch no modelled state.           *)
(***************************************************************************)
EXTENDS Integers, Sequences, FiniteSets, TLC

\* ------------------------------------------------------------------------
\* Program constants
\* ------------------------------------------------------------------------
WIDTH == 800
HEIGHT == 600
PLAYER_SPEED == 200
playback_delay_frames == 3

\* ------------------------------------------------------------------------
\* Bounds of the model
\* ------------------------------------------------------------------------
\* number of inputs the user gives: frames with a held arrow key, and events
MaxInputs == 3

\* frame times clock.tick(FPS) returns, in milliseconds: 250 ms is a step of
\* 50 px, 17 ms a step of 3.4 px (truncated by int())
DtMs == {17, 250}

\* sizes (w, h) of the image dodo.png, which fixes the size of Player.rect
ImgSizes == {<<24, 24>>, <<41, 31>>}

\* positions of left mouse clicks; (900, 300) lies outside the window
Clicks == {<<450, 300>>, <<900, 300>>}

\* sets of arrow keys held down during a frame
KeySets == {{}, {"K_LEFT"}, {"K_RIGHT"}, {"K_UP"}, {"K_DOWN"},
            {"K_LEFT", "K_RIGHT"}}

None == <<>>

\* the events of the queue: QUIT, KEYDOWN of a key, MOUSEBUTTONDOWN
Event(type, key, button, pos) ==
    [type |-> type, key |-> key, button |-> button, pos |-> pos]

KeyDown(key) == Event("KEYDOWN", key, 0, None)

MouseDown(button, pos) == Event("MOUSEBUTTONDOWN", "", button, pos)

QuitEvent == Event("QUIT", "", 0, None)

Events ==
    {KeyDown(k) : k \in {"K_SPACE", "K_c", "K_r", "K_ESCAPE"}}
        \cup {MouseDown(1, p) : p \in Clicks}
        \cup {MouseDown(3, <<450, 300>>)}
        \cup {QuitEvent}

\* ------------------------------------------------------------------------
\* State
\* ------------------------------------------------------------------------
VARIABLES
    x, y,                    \* Player.x, Player.y (whole numbers between calls)
    rect_w, rect_h,          \* size of Player.rect
    stack,                   \* PathManager.stack, oldest first
    playing_back,            \* GameApp.playing_back
    playback_stack,          \* GameApp.playback_stack
    playback_frame_counter,  \* GameApp.playback_frame_counter
    pc,                      \* position in the loop of GameApp.run
    event,                   \* the event handled last in this frame's event loop
    snapshot,                \* history: the stack copied by the last start_playback
    teleports,               \* history: [tick, target] of each teleport of the replay
    ticks,                   \* history: update_playback calls of the replay so far
    nInputs                  \* inputs given so far

vars == <<x, y, rect_w, rect_h, stack, playing_back, playback_stack,
          playback_frame_counter, pc, event, snapshot, teleports, ticks,
          nInputs>>

\* the application object as one record
Self ==
    [x |-> x, y |-> y, rect_w |-> rect_w, rect_h |-> rect_h, stack |-> stack,
     playing_back |-> playing_back, playback_stack |-> playback_stack,
     playback_frame_counter |-> playback_frame_counter, exited |-> FALSE,
     snapshot |-> snapshot, teleports |-> teleports, ticks |-> ticks]

\* ------------------------------------------------------------------------
\* Player
\* ------------------------------------------------------------------------
\* int(): truncation towards zero of num / den, den > 0
int(num, den) ==
    IF num >= 0 THEN num \div den ELSE -((-num) \div den)

\* Player.pos
pos(s) == <<s.x, s.y>>

\* a set_pos with its two arguments the wrong way round
set_pos_swapped(s, px, py) == [s EXCEPT !.x = py, !.y = px]

\* Player.set_pos: x and y are whole numbers here, rect.center follows them
set_pos(s, px, py) == [s EXCEPT !.x = px, !.y = py]

\* Player.move with dx = dxm / 1000 and dy = dym / 1000: the sum is kept in
\* thousandths; rect.center = (int(x), int(y))
move(s, dxm, dym) ==
    [s EXCEPT !.x = int(1000 * s.x + dxm, 1000),
              !.y = int(1000 * s.y + dym, 1000)]

\* pygame.Rect.clamp_ip along one axis: left edge of a rect of size len whose
\* centre is c, moved inside [0, bound]; centred when it does not fit
clamp_axis(c, len, bound) ==
    LET left == c - (len \div 2)
        clamped == IF len >= bound THEN (bound \div 2) - (len \div 2)
                   ELSE IF left < 0 THEN 0
                   ELSE IF left + len > bound THEN bound - len
                   ELSE left
    IN  clamped + (len \div 2)

\* a clamp_to_rect that leaves the rect where it is
clamp_to_rect_off(s, w, h) == s

\* Player.clamp_to_rect: clamp the rect, then x, y = rect.center
clamp_to_rect(s, w, h) ==
    [s EXCEPT !.x = clamp_axis(s.x, s.rect_w, w),
              !.y = clamp_axis(s.y, s.rect_h, h)]

\* ------------------------------------------------------------------------
\* PathManager
\* ------------------------------------------------------------------------
\* a push without the comparison with the top of the stack
push_always(s, p) == [s EXCEPT !.stack = Append(@, p)]

\* a push onto a stack that playback_stack is a reference to, not a copy of
push_shared(s, p) ==
    IF s.stack = <<>> \/ s.stack[Len(s.stack)] /= p
    THEN [s EXCEPT !.stack = Append(@, p),
                   !.playback_stack = IF s.playing_back THEN Append(@, p) ELSE @]
    ELSE s

\* a push that compares with the bottom of the stack instead of the top
push_cmp_bottom(s, p) ==
    IF s.stack = <<>> \/ s.stack[1] /= p
    THEN [s EXCEPT !.stack = Append(@, p)]
    ELSE s

\* PathManager.push
push(s, p) ==
    IF s.stack = <<>> \/ s.stack[Len(s.stack)] /= p
    THEN [s EXCEPT !.stack = Append(@, p)]
    ELSE s

\* PathManager.clear
clear(s) == [s EXCEPT !.stack = <<>>]

\* PathManager.is_empty
is_empty(s) == Len(s.stack) = 0

\* PathManager.as_list: a new list, oldest first
as_list(s) == s.stack

\* ------------------------------------------------------------------------
\* GameApp
\* ------------------------------------------------------------------------
\* a start_playback that forgets to set playing_back
start_playback_no_flag(s) ==
    IF s.playing_back THEN s
    ELSE IF is_empty(s) THEN s
    ELSE [s EXCEPT !.playback_stack = as_list(s),
                   !.playback_frame_counter = 0,
                   !.snapshot = as_list(s),
                   !.teleports = <<>>,
                   !.ticks = 0]

\* a start_playback without the early return on playing_back
start_playback_again(s) ==
    IF is_empty(s) THEN s
    ELSE [s EXCEPT !.playback_stack = as_list(s),
                   !.playing_back = TRUE,
                   !.playback_frame_counter = 0,
                   !.snapshot = as_list(s),
                   !.teleports = <<>>,
                   !.ticks = 0]

\* GameApp.start_playback
start_playback(s) ==
    IF s.playing_back THEN s
    ELSE IF is_empty(s) THEN s
    ELSE [s EXCEPT !.playback_stack = as_list(s),
                   !.playing_back = TRUE,
                   !.playback_frame_counter = 0,
                   !.snapshot = as_list(s),
                   !.teleports = <<>>,
                   !.ticks = 0]

\* a playback step that takes the oldest position instead of the newest
playback_step_oldest(s) ==
    LET target == Head(s.playback_stack)
        popped == [s EXCEPT !.playback_frame_counter = 0,
                            !.playback_stack = Tail(@)]
        placed == set_pos(popped, target[1], target[2])
    IN  [placed EXCEPT
            !.teleports = Append(@, [tick |-> s.ticks, target |-> pos(placed)])]

\* a playback step that pops the position off the live stack as well
playback_step_consuming(s) ==
    LET target == s.playback_stack[Len(s.playback_stack)]
        popped == [s EXCEPT !.playback_frame_counter = 0,
                            !.playback_stack = SubSeq(@, 1, Len(@) - 1),
                            !.stack = IF @ = <<>> THEN @
                                      ELSE SubSeq(@, 1, Len(@) - 1)]
        placed == set_pos(popped, target[1], target[2])
    IN  [placed EXCEPT
            !.teleports = Append(@, [tick |-> s.ticks, target |-> pos(placed)])]

\* a playback step that forgets to reset playback_frame_counter
playback_step_no_reset(s) ==
    LET target == s.playback_stack[Len(s.playback_stack)]
        popped == [s EXCEPT !.playback_stack = SubSeq(@, 1, Len(@) - 1)]
        placed == set_pos(popped, target[1], target[2])
    IN  [placed EXCEPT
            !.teleports = Append(@, [tick |-> s.ticks, target |-> pos(placed)])]

\* the teleport of update_playback: pop the target and set the position
playback_step(s) ==
    LET target == s.playback_stack[Len(s.playback_stack)]
        popped == [s EXCEPT !.playback_frame_counter = 0,
                            !.playback_stack = SubSeq(@, 1, Len(@) - 1)]
    IN  IF target /= None
        THEN LET placed == set_pos(popped, target[1], target[2])
             IN  [placed EXCEPT
                     !.teleports = Append(@, [tick |-> s.ticks,
                                              target |-> pos(placed)])]
        ELSE popped

\* an update_playback that waits one frame longer between the steps
update_playback_late(s) ==
    IF ~s.playing_back THEN s
    ELSE LET t == [s EXCEPT !.ticks = @ + 1]
         IN  IF t.playback_stack = <<>>
             THEN [t EXCEPT !.playing_back = FALSE]
             ELSE LET u == [t EXCEPT !.playback_frame_counter = @ + 1]
                  IN  IF u.playback_frame_counter > playback_delay_frames
                      THEN playback_step(u)
                      ELSE u

\* an update_playback that returns on an empty playback_stack without
\* clearing playing_back
update_playback_never_idle(s) ==
    IF ~s.playing_back THEN s
    ELSE IF s.playback_stack = <<>> THEN s
    ELSE LET u == [s EXCEPT !.ticks = @ + 1,
                            !.playback_frame_counter = @ + 1]
         IN  IF u.playback_frame_counter >= playback_delay_frames
             THEN playback_step(u)
             ELSE u

\* an update_playback that counts the frame before it looks at playing_back
update_playback_counting(s) ==
    LET c == [s EXCEPT !.playback_frame_counter = @ + 1]
    IN  IF ~c.playing_back THEN c
        ELSE LET t == [c EXCEPT !.ticks = @ + 1]
             IN  IF t.playback_stack = <<>>
                 THEN [t EXCEPT !.playing_back = FALSE]
                 ELSE IF t.playback_frame_counter >= playback_delay_frames
                 THEN playback_step(t)
                 ELSE t

\* GameApp.update_playback
update_playback(s) ==
    IF ~s.playing_back THEN s
    ELSE LET t == [s EXCEPT !.ticks = @ + 1]
         IN  IF t.playback_stack = <<>>
             THEN [t EXCEPT !.playing_back = FALSE]
             ELSE LET u == [t EXCEPT !.playback_frame_counter = @ + 1]
                  IN  IF u.playback_frame_counter >= playback_delay_frames
                      THEN playback_step(u)
                      ELSE u

\* the keyboard part of handle_events; dt = ms / 1000 seconds, deltas in
\* thousandths of a pixel
keyboard_move(s, keys, ms) ==
    LET step == PLAYER_SPEED * ms
        move_dx == (IF "K_RIGHT" \in keys THEN step ELSE 0)
                     - (IF "K_LEFT" \in keys THEN step ELSE 0)
        move_dy == (IF "K_DOWN" \in keys THEN step ELSE 0)
                     - (IF "K_UP" \in keys THEN step ELSE 0)
    IN  IF s.playing_back THEN s
        ELSE IF move_dx /= 0 \/ move_dy /= 0
        THEN LET moved == clamp_to_rect(move(s, move_dx, move_dy), WIDTH, HEIGHT)
             IN  push(moved, pos(moved))
        ELSE s

\* a key C that clears the path and pushes nothing
clear_path_only(s) == clear(s)

\* key C: clear the path and push the current position
clear_path(s) == LET c == clear(s) IN push(c, pos(c))

\* a click that also ends a replay in progress
click_teleport_cancelling(s, mx, my) ==
    LET placed == clamp_to_rect(set_pos(s, mx, my), WIDTH, HEIGHT)
    IN  [push(placed, pos(placed)) EXCEPT !.playing_back = FALSE,
                                          !.playback_stack = <<>>]

\* a click that moves the player and pushes nothing
click_teleport_no_push(s, mx, my) ==
    clamp_to_rect(set_pos(s, mx, my), WIDTH, HEIGHT)

\* left mouse button: teleport to the click and push the position
click_teleport(s, mx, my) ==
    LET placed == clamp_to_rect(set_pos(s, mx, my), WIDTH, HEIGHT)
    IN  push(placed, pos(placed))

\* GameApp.quit
quit(s) == [s EXCEPT !.exited = TRUE]

\* one iteration of the event loop of handle_events
handle_event(s, e) ==
    IF e.type = "QUIT" THEN quit(s)
    ELSE IF e.type = "KEYDOWN"
    THEN IF e.key = "K_ESCAPE" THEN quit(s)
         ELSE IF e.key = "K_SPACE" THEN start_playback(s)
         ELSE IF e.key = "K_c" THEN clear_path(s)
         ELSE s
    ELSE IF e.type = "MOUSEBUTTONDOWN"
    THEN IF e.button = 1
         THEN click_teleport(s, e.pos[1], e.pos[2])
         ELSE s
    ELSE s

\* the event loop of handle_events; sys.exit leaves it at once
RECURSIVE event_loop(_, _)
event_loop(s, events) ==
    IF events = <<>> \/ s.exited THEN s
    ELSE event_loop(handle_event(s, Head(events)), Tail(events))

\* GameApp.handle_events
handle_events(s, keys, ms, events) ==
    event_loop(keyboard_move(s, keys, ms), events)

\* ------------------------------------------------------------------------
\* The state machine
\* ------------------------------------------------------------------------
\* GameApp.__init__
Init ==
    /\ \E size \in ImgSizes : rect_w = size[1] /\ rect_h = size[2]
    /\ x = WIDTH \div 2
    /\ y = HEIGHT \div 2
    /\ stack = <<<<WIDTH \div 2, HEIGHT \div 2>>>>
    /\ playing_back = FALSE
    /\ playback_stack = <<>>
    /\ playback_frame_counter = 0
    /\ pc = "handle_events"
    /\ event = None
    /\ snapshot = <<>>
    /\ teleports = <<>>
    /\ ticks = 0
    /\ nInputs = 0

Assign(s) ==
    /\ x' = s.x
    /\ y' = s.y
    /\ stack' = s.stack
    /\ playing_back' = s.playing_back
    /\ playback_stack' = s.playback_stack
    /\ playback_frame_counter' = s.playback_frame_counter
    /\ snapshot' = s.snapshot
    /\ teleports' = s.teleports
    /\ ticks' = s.ticks
    /\ UNCHANGED <<rect_w, rect_h>>

\* run: self.handle_events(dt), the keyboard part: the keys held in this
\* frame and the frame time are the inputs
KeyboardMove ==
    /\ pc = "handle_events"
    /\ \E keys \in KeySets, ms \in DtMs :
          /\ keys /= {} => nInputs < MaxInputs
          /\ nInputs' = IF keys /= {} THEN nInputs + 1 ELSE nInputs
          /\ Assign(keyboard_move(Self, keys, ms))
          /\ pc' = "event_loop"
          /\ event' = None

\* run: self.handle_events(dt), one iteration of the event loop: the next
\* event of the queue is the input
HandleEvent ==
    /\ pc = "event_loop"
    /\ nInputs < MaxInputs
    /\ \E e \in Events :
          LET s == handle_event(Self, e)
          IN  /\ Assign(s)
              /\ pc' = IF s.exited THEN "exited" ELSE "event_loop"
              /\ event' = e
    /\ nInputs' = nInputs + 1

\* run: the event queue is exhausted, handle_events returns and
\* self.update_playback() runs
UpdatePlayback ==
    /\ pc = "event_loop"
    /\ Assign(update_playback(Self))
    /\ pc' = "handle_events"
    /\ event' = None
    /\ UNCHANGED nInputs

Next == KeyboardMove \/ HandleEvent \/ UpdatePlayback

Spec == Init /\ [][Next]_vars

\* the stack after three frames of 250 ms with K_RIGHT held, from the start
ScenarioHistory == <<<<400, 300>>, <<450, 300>>, <<500, 300>>, <<550, 300>>>>

\* the application after those three frames, at the start of the next frame
InitScenario ==
    /\ \E size \in ImgSizes : rect_w = size[1] /\ rect_h = size[2]
    /\ x = 550
    /\ y = 300
    /\ stack = ScenarioHistory
    /\ playing_back = FALSE
    /\ playback_stack = <<>>
    /\ playback_frame_counter = 0
    /\ pc = "handle_events"
    /\ event = None
    /\ snapshot = <<>>
    /\ teleports = <<>>
    /\ ticks = 0
    /\ nInputs = 0

SpecScenario == InitScenario /\ [][Next]_vars

\* the loop of run never stops by itself: a frame that has begun reads the
\* keys, and once the event queue is exhausted update_playback runs; the user
\* owes no event
FairSpec == Spec /\ WF_vars(KeyboardMove) /\ WF_vars(UpdatePlayback)

\* ------------------------------------------------------------------------
\* Properties
\* ------------------------------------------------------------------------
RECURSIVE Reverse(_)
Reverse(q) == IF q = <<>> THEN <<>> ELSE Append(Reverse(Tail(q)), Head(q))

\* the positions the actor was teleported to in this replay, in order
Emitted == [k \in 1..Len(teleports) |-> teleports[k].target]

\* size of the snapshot of the last replay, and the ticks that pop all of it
N == Len(snapshot)
AllPopped == N * playback_delay_frames

\* a step of the keyboard part or of the event loop of handle_events
InputStep == pc = "handle_events" \/ (pc = "event_loop" /\ pc' /= "handle_events")

\* a step of update_playback
PlaybackStep == pc = "event_loop" /\ pc' = "handle_events"

Centre == <<WIDTH \div 2, HEIGHT \div 2>>

\* C1, as stated: after start_playback on a snapshot of size N > 0 and exactly
\* N * 3 calls of update_playback the controller is inactive and
\* playback_stack is empty.
C1_InactiveAfterNC ==
    (N > 0 /\ ticks = AllPopped) => (~playing_back /\ playback_stack = <<>>)

\* C1, amended: after exactly N * 3 calls of update_playback playback_stack is
\* empty and the controller is still active; the call after that, the
\* (N * 3 + 1)-th, makes it inactive, and the replay takes no further call.
C1_InactiveAfterNCPlusOne ==
    N > 0 =>
        /\ ticks <= AllPopped + 1
        /\ ticks < AllPopped => (playing_back /\ playback_stack /= <<>>)
        /\ ticks = AllPopped => (playing_back /\ playback_stack = <<>>)
        /\ ticks = AllPopped + 1 => (~playing_back /\ playback_stack = <<>>)

C1_Witness == N >= 2 /\ ticks = AllPopped + 1 /\ ~playing_back

\* C2: the positions the actor is teleported to during one replay are the
\* snapshot of start_playback read from its tail to its head: what was emitted
\* so far, followed by what is left on playback_stack from the tail, is the
\* reversed snapshot, so every entry is emitted once and none is skipped.
C2_ReverseOrder ==
    /\ Emitted \o Reverse(playback_stack) = Reverse(snapshot)
    /\ (N > 0 /\ ~playing_back) => Emitted = Reverse(snapshot)

C2_Witness == N >= 3 /\ ~playing_back /\ Len(teleports) = N

\* C3: while playing_back holds, no held arrow key and no left mouse click
\* handled by handle_events changes the position of the player or the stack.
C3_InputDisabled ==
    playing_back =>
        \A keys \in KeySets, ms \in DtMs, p \in Clicks :
            LET s == handle_events(Self, keys, ms, <<MouseDown(1, p)>>)
            IN  pos(s) = <<x, y>> /\ s.stack = stack

\* C4: no two adjacent entries of the stack are equal.
C4_Dedup == \A i \in 1..(Len(stack) - 1) : stack[i] /= stack[i + 1]

\* equal positions at indices that are not adjacent
C4_Witness == \E i, j \in 1..Len(stack) : j > i + 1 /\ stack[i] = stack[j]

\* C5: the position of the player lies within [0, WIDTH] x [0, HEIGHT] after
\* every keyboard move, click and replay teleport.
C5_Clamp == x \in 0..WIDTH /\ y \in 0..HEIGHT

\* the click at (900, 300) was handled and the player stands at the right edge
C5_Witness ==
    /\ pc = "event_loop"
    /\ event = MouseDown(1, <<900, 300>>)
    /\ x = WIDTH - rect_w + (rect_w \div 2)
    /\ stack[Len(stack)] = <<x, y>>

\* C6: no call of update_playback changes the stack, so a replay that no input
\* interrupts ends with the stack it started with.
C6_ReplayKeepsHistory == [][PlaybackStep => stack' = stack]_vars

C6_Witness ==
    N >= 2 /\ ~playing_back /\ Len(teleports) = N /\ stack = snapshot

\* C7: during a replay no step of handle_events (a push from a click or a key,
\* a clear with its push) changes playback_stack or the positions emitted so
\* far, so the positions still to be emitted stay those of the snapshot.
C7_SnapshotIndependent ==
    [][(playing_back /\ InputStep) =>
          UNCHANGED <<playback_stack, snapshot, teleports>>]_vars

\* the stack changed during the replay, the rest of the snapshot is pending
C7_Witness ==
    /\ playing_back
    /\ stack /= snapshot
    /\ playback_stack /= <<>>
    /\ Len(teleports) >= 1

\* C8: the stack is never empty, and right after key C it holds exactly the
\* current position of the player.
C8_NeverEmpty ==
    /\ stack /= <<>>
    /\ (pc = "event_loop" /\ event = KeyDown("K_c")) => stack = <<<<x, y>>>>

\* key C was handled after the player had left the start position
C8_Witness ==
    /\ pc = "event_loop"
    /\ event = KeyDown("K_c")
    /\ stack = <<<<x, y>>>>
    /\ <<x, y>> /= Centre

\* C9: SPACE handled while playing_back holds leaves playing_back,
\* playback_stack and playback_frame_counter as they are; start_playback on an
\* empty stack leaves the controller idle.
C9_StartNoop ==
    /\ [][(playing_back /\ pc = "event_loop" /\ event' = KeyDown("K_SPACE")) =>
             UNCHANGED <<playing_back, playback_stack,
                         playback_frame_counter>>]_vars
    /\ [](~playing_back => start_playback(clear(Self)) = clear(Self))

\* SPACE was handled in the middle of a replay
C9_Witness ==
    /\ pc = "event_loop"
    /\ event = KeyDown("K_SPACE")
    /\ playing_back
    /\ playback_frame_counter > 0
    /\ playback_stack /= <<>>
    /\ Len(playback_stack) < N

\* C10: the k-th teleport of a replay happens on the (3 * k)-th call of
\* update_playback after start_playback and on no other call, at most one
\* teleport per call.
C10_Cadence ==
    /\ \A k \in 1..Len(teleports) :
          teleports[k].tick = k * playback_delay_frames
    /\ Len(teleports) =
          IF ticks >= AllPopped THEN N ELSE ticks \div playback_delay_frames

C10_Witness == Len(teleports) = 2 /\ ticks = 2 * playback_delay_frames

\* C11, as stated: in the replay of the history (400,300), (450,300),
\* (500,300), (550,300) the first teleport is on the 3rd tick and goes to
\* (550,300), the teleport to (500,300) comes 6 ticks after it, and the
\* controller is inactive once the 4 positions are popped.
C11_ScenarioAsStated ==
    snapshot = ScenarioHistory =>
        /\ Len(teleports) >= 1 =>
              teleports[1] = [tick |-> 3, target |-> <<550, 300>>]
        /\ Len(teleports) >= 2 =>
              teleports[2] = [tick |-> 3 + 6, target |-> <<500, 300>>]
        /\ Len(teleports) = 4 => ~playing_back

\* C11, amended: the first teleport is on the 3rd tick and goes to (550,300),
\* the teleport to (500,300) comes 3 ticks after it, on the 6th tick, the 4th
\* position is popped on the 12th tick and the controller is inactive after
\* the 13th.
C11_Scenario ==
    snapshot = ScenarioHistory =>
        /\ Len(teleports) = IF ticks >= 12 THEN 4 ELSE ticks \div 3
        /\ Len(teleports) >= 1 =>
              teleports[1] = [tick |-> 3, target |-> <<550, 300>>]
        /\ Len(teleports) >= 2 =>
              teleports[2] = [tick |-> 6, target |-> <<500, 300>>]
        /\ Len(teleports) >= 3 =>
              teleports[3] = [tick |-> 9, target |-> <<450, 300>>]
        /\ Len(teleports) >= 4 =>
              teleports[4] = [tick |-> 12, target |-> <<400, 300>>]
        /\ playing_back <=> ticks <= 12

C11_Witness ==
    /\ snapshot = ScenarioHistory
    /\ Len(teleports) = 4
    /\ ticks = 13
    /\ ~playing_back
    /\ <<x, y>> = <<400, 300>>

\* C12: in a frame that starts idle and in which the user both moves the actor
\* (held arrow key or left click in the event queue) and presses SPACE, the
\* position the move leads to is the tail of playback_stack when
\* handle_events returns, before update_playback runs.
C12_MoveBeforeSnapshot ==
    (pc = "handle_events" /\ ~playing_back) =>
        \A keys \in KeySets, ms \in DtMs, p \in Clicks :
            \A queue \in {<<KeyDown("K_SPACE")>>,
                          <<MouseDown(1, p), KeyDown("K_SPACE")>>,
                          <<KeyDown("K_SPACE"), MouseDown(1, p)>>} :
                LET s == handle_events(Self, keys, ms, queue)
                IN  pos(s) /= <<x, y>> =>
                        /\ s.playing_back
                        /\ s.playback_stack[Len(s.playback_stack)] = pos(s)

\* the positions push is tried with: the clicks, the start position, the
\* current position and every entry of the stack
PushArgs ==
    Clicks \cup {Centre, <<x, y>>} \cup {stack[i] : i \in 1..Len(stack)}

\* the history states push is tried on: the stack as it is, and the empty one
PushStates == {Self, clear(Self)}

\* C13, as stated: for any history and any position p, push(p) twice in a row
\* makes the history exactly one entry longer, and the second push is a no-op.
C13_PushTwiceAddsOne ==
    \A s \in PushStates, p \in PushArgs :
        LET once == push(s, p)
            twice == push(once, p)
        IN  /\ Len(twice.stack) = Len(s.stack) + 1
            /\ twice = once

\* C13, amended: push(p) twice in a row makes the history exactly one entry
\* longer when the history is empty or p differs from its tail, and leaves it
\* as it is when p is its tail; the second push is always a no-op.
C13_PushTwice ==
    \A s \in PushStates, p \in PushArgs :
        LET once == push(s, p)
            twice == push(once, p)
            tail_is_p == s.stack /= <<>> /\ s.stack[Len(s.stack)] = p
        IN  /\ Len(twice.stack) = Len(s.stack) + (IF tail_is_p THEN 0 ELSE 1)
            /\ twice.stack[Len(twice.stack)] = p
            /\ twice = once

\* a click on (450,300) was handled with the player already there: the
\* position was pushed once
C13_Witness ==
    /\ pc = "event_loop"
    /\ event = MouseDown(1, <<450, 300>>)
    /\ nInputs = 2
    /\ ~playing_back
    /\ stack = <<Centre, <<450, 300>>>>

\* C14: a call of update_playback with playing_back false changes none of the
\* position, the stack, playback_stack, playback_frame_counter, playing_back.
C14_IdleTickNoop ==
    [][(PlaybackStep /\ ~playing_back) =>
          UNCHANGED <<x, y, stack, playback_stack, playback_frame_counter,
                      playing_back>>]_vars

\* update_playback has run in a frame with a move, no replay ever started
C14_Witness ==
    /\ pc = "handle_events"
    /\ N = 0
    /\ ~playing_back
    /\ Len(stack) >= 2

\* C15: during a replay no step of handle_events makes the controller idle or
\* changes playback_stack; playing_back turns false only in a call of
\* update_playback that finds playback_stack empty, every entry of the
\* snapshot emitted.
C15_NoCancel ==
    [][/\ (playing_back /\ InputStep) =>
             (playing_back' /\ playback_stack' = playback_stack)
       /\ (playing_back /\ ~playing_back') =>
             (PlaybackStep /\ playback_stack = <<>> /\ Len(teleports) = N)]_vars

\* an event that changes the stack was handled after the first teleport of a
\* replay, and the replay goes on
C15_Witness ==
    /\ pc = "event_loop"
    /\ event \in {MouseDown(1, p) : p \in Clicks} \cup {KeyDown("K_c")}
    /\ playing_back
    /\ Len(teleports) >= 1
    /\ stack /= snapshot

C17_IdlePendingEmpty == ~playing_back => playback_stack = <<>>

\* idle again after a replay that emitted its one position
C17_Witness ==
    /\ ~playing_back
    /\ N = 1
    /\ Len(teleports) = 1
    /\ playback_stack = <<>>

\* C18, as stated: whenever the controller is idle at the start of a frame,
\* the tail of the stack is the position of the player.
C18_TailIsPos ==
    (pc = "handle_events" /\ ~playing_back) => stack[Len(stack)] = <<x, y>>

\* C18, amended: whenever the controller is idle at the start of a frame, the
\* tail of the stack is the position of the player, or no input has moved the
\* player since the last replay and the player stands on the oldest entry of
\* the snapshot of that replay.
C18_TailIsPosOrReplayEnd ==
    (pc = "handle_events" /\ ~playing_back) =>
        \/ stack[Len(stack)] = <<x, y>>
        \/ (N >= 1 /\ Len(teleports) = N /\ <<x, y>> = snapshot[1])

\* idle after a replay of two or more positions: the player stands on the
\* oldest one, the tail of the stack is another
C18_Witness ==
    /\ pc = "handle_events"
    /\ ~playing_back
    /\ N >= 2
    /\ <<x, y>> = snapshot[1]
    /\ stack[Len(stack)] /= <<x, y>>

====
